---- MODULE Spec2Model ----
(***************************************************************************)
(* Customer / address store of the customer CRUD server.                   *)
(*                                                                         *)
(* The store is the SQLite database opened in server/database/database.js  *)
(* (tables customers and addresses).  The handlers of routes/addresses.js  *)
(* and routes/customers.js issue statements through the shared node-sqlite3 *)
(* handle `db`.  Outside db.serialize() that handle runs in its default     *)
(* (parallel) mode: statements issued back to back, without waiting for    *)
(* each other's callbacks, are executed in no guaranteed order.  A         *)
(* statement issued from inside a callback is executed after the statement *)
(* whose callback issued it.  One step of the model executes one statement *)
(* and runs its callback (the callback only issues further statements and  *)
(* sends the response).                                                    *)
(*                                                                         *)
(* The connection never executes PRAGMA foreign_keys = ON, so SQLite does  *)
(* not enforce the FOREIGN KEY ... ON DELETE CASCADE clause of the schema. *)
(*                                                                         *)
(* first_name / last_name (customers) and address_line2, city, state,      *)
(* pin_code, country (addresses) are written and read together with        *)
(* phone_number, respectively address_line1, and no statement's WHERE      *)
(* clause of a mutating handler reads them: address_line1 stands for the   *)
(* whole content of an address row, 0 for a payload whose NOT NULL fields  *)
(* are missing.                                                            *)
(***************************************************************************)
EXTENDS Integers, Sequences, FiniteSets, TLC

VARIABLES
    customers,   \* customers table: id -> row
    addresses,   \* addresses table: id -> row
    nextCustId,  \* AUTOINCREMENT counter of customers
    nextAddrId,  \* AUTOINCREMENT counter of addresses
    req,         \* the requests being handled: slot -> request
    nreq,        \* number of requests received so far
    faults,      \* store faults (I/O, busy) the environment may still inject
    boot         \* initializeDatabase / insertSampleData progress

vars == <<customers, addresses, nextCustId, nextAddrId, req, nreq, faults, boot>>

----
\* Bounds of the model.

\* Requests received in one behaviour.
MaxRequests == 2
\* Requests handled at the same time (concurrent specification).
MaxInFlight == 2
\* Customers / addresses in the store when the server starts.
MaxSeedCustomers == 2
MaxSeedAddresses == 2
\* Distinct address contents an address request may carry.
MaxLine == 2
\* Distinct (non-null) address contents a nested address payload may carry.
MaxNestedLine == 1
\* Distinct non-null e-mail addresses.
MaxEmail == 1
\* Longest nested address list of a customer request.
MaxList == 2
\* Largest customer_id a PUT /addresses body may carry (0: no such field).
MaxBodyCustomerId == 1
\* Store faults (I/O error, busy) injected in one behaviour of a fault specification.
MaxFaults == 1

Slots == 1 .. MaxInFlight
Phones == 1 .. MaxSeedCustomers
\* 0 is "no email" (undefined in the body, NULL in the row).
Emails == 0 .. MaxEmail
Lines == 1 .. MaxLine
BodyCustomerIds == 0 .. MaxBodyCustomerId

----
\* Rows and SQL statements as functions of the tables.

CustomerRow(phone, email) ==
    [phone_number |-> phone, email |-> email,
     has_multiple_addresses |-> FALSE, only_one_address |-> FALSE]

AddressRow(customerId, line, primary) ==
    [customer_id |-> customerId, address_line1 |-> line, is_primary |-> primary]

\* SELECT ... FROM addresses WHERE customer_id = ?
AddressesOf(as, customerId) ==
    {a \in DOMAIN as : as[a].customer_id = customerId}

\* SELECT COUNT(*) FROM addresses WHERE customer_id = ?
CountAddresses(as, customerId) == Cardinality(AddressesOf(as, customerId))

PrimariesOf(as, customerId) ==
    {a \in AddressesOf(as, customerId) : as[a].is_primary}

\* A recompute that takes "more than one" for "at least one".
HasMultipleFlag_AtLeastOne(count) == count >= 1

\* The value stored in has_multiple_addresses: SELECT COUNT(*) > 1
HasMultipleFlag(count) == count > 1

\* A recompute that takes "at most one" for "exactly one".
OnlyOneFlag_AtMostOne(count) == count <= 1

\* The value stored in only_one_address: SELECT COUNT(*) = 1
OnlyOneFlag(count) == count = 1

\* A recompute whose only_one_address also reads the stored has_multiple_addresses.
UpdateFlagsStmt_FromStoredFlag(cs, as, customerId) ==
    IF customerId \in DOMAIN cs
    THEN [cs EXCEPT
            ![customerId].has_multiple_addresses = CountAddresses(as, customerId) > 1,
            ![customerId].only_one_address =
                (CountAddresses(as, customerId) = 1
                 /\ ~cs[customerId].has_multiple_addresses)]
    ELSE cs

\* UPDATE customers SET has_multiple_addresses = (...), only_one_address = (...)
\* WHERE id = ?   (no row: no change)
UpdateFlagsStmt(cs, as, customerId) ==
    IF customerId \in DOMAIN cs
    THEN [cs EXCEPT
            ![customerId].has_multiple_addresses =
                HasMultipleFlag(CountAddresses(as, customerId)),
            ![customerId].only_one_address =
                OnlyOneFlag(CountAddresses(as, customerId))]
    ELSE cs

\* A clear-others UPDATE that matches no row.
ClearPrimaryStmt_NoRow(as, customerId, except) == as

\* UPDATE addresses SET is_primary = FALSE WHERE customer_id = ? [AND id != ?]
\* (POST /addresses has no "AND id != ?": except = 0 matches no row.)
ClearPrimaryStmt(as, customerId, except) ==
    [a \in DOMAIN as |->
        IF as[a].customer_id = customerId /\ a # except
        THEN [as[a] EXCEPT !.is_primary = FALSE]
        ELSE as[a]]

\* INSERT INTO addresses (...) VALUES (...): the row gets the next id.
InsertAddressStmt(as, id, row) ==
    [a \in DOMAIN as \cup {id} |-> IF a = id THEN row ELSE as[a]]

\* A delete that promotes the owner's remaining addresses to primary.
DeleteAddressStmt_Promote(as, id) ==
    [a \in DOMAIN as \ {id} |->
        IF id \in DOMAIN as /\ as[a].customer_id = as[id].customer_id
        THEN [as[a] EXCEPT !.is_primary = TRUE]
        ELSE as[a]]

\* DELETE FROM addresses WHERE id = ?
DeleteAddressStmt(as, id) ==
    [a \in DOMAIN as \ {id} |-> as[a]]

\* A DELETE of a customer's addresses that matches no row.
DeleteAddressesStmt_NoRow(as, customerId) == as

\* DELETE FROM addresses WHERE customer_id = ?
DeleteAddressesStmt(as, customerId) ==
    [a \in DOMAIN as \ AddressesOf(as, customerId) |-> as[a]]

\* PRAGMA foreign_keys: never switched on by the server, SQLite's default is off.
ForeignKeysOn == FALSE

\* DELETE FROM customers WHERE id = ?, as it acts on the addresses table.
CascadeStmt(as, customerId) ==
    IF ForeignKeysOn THEN DeleteAddressesStmt(as, customerId) ELSE as

\* A test that takes an absent is_primary for a set one.
Truthy_NotFalse(v) == v # "false"

\* JavaScript truthiness of the is_primary body field (true, false or absent).
Truthy(v) == v = "true"

\* `is_primary || false`, the value bound to the is_primary column.
OrFalse(v) == IF Truthy(v) THEN TRUE ELSE FALSE

PrimaryInputs == {"true", "false", "absent"}

----
\* Requests.

NoSnapshot == [customers |-> <<>>, addresses |-> <<>>]

\* A slot that handles no request.
NoReq ==
    [kind |-> "none", pend |-> {}, resp |-> 0, message |-> "",
     id |-> 0, customer_id |-> 0, is_primary |-> "absent", address_line1 |-> 0,
     phone_number |-> 0, email |-> 0, addresses |-> <<>>, given |-> FALSE,
     addressCount |-> 0, lastID |-> 0, pre |-> NoSnapshot,
     body_customer_id |-> 0, sent |-> 0]

Stmt(op, i) == [op |-> op, i |-> i]

\* A request is complete when its response is sent and every statement it issued
\* has been executed.
Complete(q) == q.kind = "none" \/ (q.resp # 0 /\ q.pend = {})

\* No request is in flight.
Quiescent == \A r \in Slots : Complete(req[r])

Snapshot == [customers |-> customers, addresses |-> addresses]

\* The outcomes the store can give a statement that violates no constraint.
StoreOutcomes == IF faults > 0 THEN {TRUE, FALSE} ELSE {TRUE}

Charge(ok) == faults' = IF ok THEN faults ELSE faults - 1

\* A new request may be received in slot r: the first free slot.
CanReceive(r) ==
    /\ Complete(req[r])
    /\ \A r2 \in Slots : r2 < r => ~Complete(req[r2])
    /\ nreq < MaxRequests

Receive(r, q) ==
    /\ req' = [req EXCEPT ![r] = q]
    /\ nreq' = nreq + 1

\* Statement s of request r is executed now: it leaves pend, `issued` enters it.
After(q, s, issued) == [q EXCEPT !.pend = (@ \ {s}) \cup issued]

\* res.status(code).json({ success, message }): one more response is sent.
Respond(q, code, text) ==
    [q EXCEPT !.resp = code, !.message = text, !.sent = @ + 1]

\* validationResult(req) of validateAddress: address_line1 (with city, state,
\* pin_code) passes its rule; customer_id has no rule.
validateAddress(q) == q.address_line1 # 0

\* validationResult(req) of validateCustomer: phone_number (with first_name,
\* last_name) passes its rule; addresses only has to be an array, its elements
\* have no rule.
validateCustomer(q) == q.phone_number # 0

\* `return res.status(400).json(...)` before any statement is issued.
RejectInvalid(q) == Respond([q EXCEPT !.pend = {}], 400, "Validation errors")

----
\* routes/addresses.js

\* A recompute whose callback answers 500 when the UPDATE fails.
updateCustomerAddressFlags_AnswerError(r) ==
    LET s == Stmt("updateFlags", 0) IN
    /\ req[r].kind \in {"postAddress", "putAddress", "deleteAddress"}
    /\ s \in req[r].pend
    /\ \E ok \in StoreOutcomes :
        /\ Charge(ok)
        /\ customers' = IF ok
                        THEN UpdateFlagsStmt(customers, addresses, req[r].customer_id)
                        ELSE customers
        /\ req' = [req EXCEPT ![r] =
              IF ok THEN After(@, s, {})
              ELSE Respond(After(@, s, {}), 500, "Error updating address flags")]
    /\ UNCHANGED <<addresses, nextCustId, nextAddrId, nreq, boot>>

\* updateCustomerAddressFlags(customerId): one UPDATE, errors only logged.
updateCustomerAddressFlags(r) ==
    LET s == Stmt("updateFlags", 0) IN
    /\ req[r].kind \in {"postAddress", "putAddress", "deleteAddress"}
    /\ s \in req[r].pend
    /\ \E ok \in StoreOutcomes :
        /\ Charge(ok)
        /\ customers' = IF ok
                        THEN UpdateFlagsStmt(customers, addresses, req[r].customer_id)
                        ELSE customers
    /\ req' = [req EXCEPT ![r] = After(@, s, {})]
    /\ UNCHANGED <<addresses, nextCustId, nextAddrId, nreq, boot>>

\* The "unset other primary addresses" UPDATE of POST and PUT /addresses; its
\* callback only logs an error.
ClearOtherPrimaries(r) ==
    LET s == Stmt("clearPrimary", 0) IN
    /\ s \in req[r].pend
    /\ \E ok \in StoreOutcomes :
        /\ Charge(ok)
        /\ addresses' = IF ok
                        THEN ClearPrimaryStmt(addresses, req[r].customer_id,
                                 IF req[r].kind = "putAddress" THEN req[r].id ELSE 0)
                        ELSE addresses
    /\ req' = [req EXCEPT ![r] = After(@, s, {})]
    /\ UNCHANGED <<customers, nextCustId, nextAddrId, nreq, boot>>

\* POST /api/addresses arrives: 400 on a body that fails validateAddress (one such
\* body is drawn), else the customer SELECT is issued.  customer_id = 0 is a body
\* without customer_id: the parameter is left unbound, NULL, and matches no row.
PostAddress(r) ==
    /\ CanReceive(r)
    /\ \E c \in 0 .. nextCustId, p \in PrimaryInputs, l \in {0} \cup Lines :
        LET q == [NoReq EXCEPT !.kind = "postAddress", !.customer_id = c,
                       !.is_primary = p, !.address_line1 = l,
                       !.pend = {Stmt("selectCustomer", 0)}, !.pre = Snapshot] IN
        /\ l = 0 => (c = 0 /\ p = "absent")
        /\ Receive(r, IF validateAddress(q) THEN q ELSE RejectInvalid(q))
    /\ UNCHANGED <<customers, addresses, nextCustId, nextAddrId, faults, boot>>

\* A handler that issues the clear-others UPDATE whether or not the customer exists.
PostAddress_CheckCustomer_ClearFirst(r) ==
    LET q == req[r]
        s == Stmt("selectCustomer", 0)
        clear == IF Truthy(q.is_primary) THEN {Stmt("clearPrimary", 0)} ELSE {} IN
    /\ q.kind = "postAddress" /\ s \in q.pend
    /\ req' = [req EXCEPT ![r] =
          IF q.customer_id \notin DOMAIN customers
          THEN Respond(After(q, s, clear), 404, "Customer not found")
          ELSE After(q, s, clear \cup {Stmt("insertAddress", 0)})]
    /\ UNCHANGED <<customers, addresses, nextCustId, nextAddrId, nreq, faults, boot>>

\* SELECT id FROM customers WHERE id = ? and its callback: 404, or issue the
\* clear-others UPDATE (if is_primary) and the INSERT, without waiting.
PostAddress_CheckCustomer(r) ==
    LET q == req[r]
        s == Stmt("selectCustomer", 0) IN
    /\ q.kind = "postAddress" /\ s \in q.pend
    /\ \E ok \in StoreOutcomes :
        /\ Charge(ok)
        /\ req' = [req EXCEPT ![r] =
              IF ~ok
              THEN Respond(After(q, s, {}), 500, "Error checking customer existence")
              ELSE IF q.customer_id \notin DOMAIN customers
              THEN Respond(After(q, s, {}), 404, "Customer not found")
              ELSE After(q, s,
                     (IF Truthy(q.is_primary) THEN {Stmt("clearPrimary", 0)} ELSE {})
                     \cup {Stmt("insertAddress", 0)})]
    /\ UNCHANGED <<customers, addresses, nextCustId, nextAddrId, nreq, boot>>

\* INSERT INTO addresses and its callback: 500, or updateCustomerAddressFlags
\* and the 201 response.
PostAddress_Insert(r) ==
    LET q == req[r]
        s == Stmt("insertAddress", 0) IN
    /\ q.kind = "postAddress" /\ s \in q.pend
    /\ \E ok \in StoreOutcomes :
        /\ Charge(ok)
        /\ IF ok
           THEN /\ addresses' = InsertAddressStmt(addresses, nextAddrId,
                     AddressRow(q.customer_id, q.address_line1, OrFalse(q.is_primary)))
                /\ nextAddrId' = nextAddrId + 1
                /\ req' = [req EXCEPT ![r] =
                     Respond([After(q, s, {Stmt("updateFlags", 0)})
                                 EXCEPT !.lastID = nextAddrId],
                             201, "Address created successfully")]
           ELSE /\ UNCHANGED <<addresses, nextAddrId>>
                /\ req' = [req EXCEPT ![r] =
                     Respond(After(q, s, {}), 500, "Error creating address")]
    /\ UNCHANGED <<customers, nextCustId, nreq, boot>>

\* PUT /api/addresses/:id arrives; body_customer_id is a customer_id field of the
\* body, which the handler does not destructure.
PutAddress(r) ==
    /\ CanReceive(r)
    /\ \E a \in 1 .. nextAddrId, p \in PrimaryInputs, l \in {0} \cup Lines,
          bc \in BodyCustomerIds :
        LET q == [NoReq EXCEPT !.kind = "putAddress", !.id = a,
                       !.is_primary = p, !.address_line1 = l,
                       !.body_customer_id = bc,
                       !.pend = {Stmt("selectAddress", 0)}, !.pre = Snapshot] IN
        /\ l = 0 => (a = 1 /\ p = "absent" /\ bc = 0)
        /\ Receive(r, IF validateAddress(q) THEN q ELSE RejectInvalid(q))
    /\ UNCHANGED <<customers, addresses, nextCustId, nextAddrId, faults, boot>>

\* A handler that takes the owner from the body when the body names one.
PutAddress_CheckAddress_BodyOwner(r) ==
    LET q == req[r]
        s == Stmt("selectAddress", 0) IN
    /\ q.kind = "putAddress" /\ s \in q.pend
    /\ req' = [req EXCEPT ![r] =
          IF q.id \notin DOMAIN addresses
          THEN Respond(After(q, s, {}), 404, "Address not found")
          ELSE [After(q, s,
                 (IF Truthy(q.is_primary) THEN {Stmt("clearPrimary", 0)} ELSE {})
                 \cup {Stmt("updateAddress", 0)})
                EXCEPT !.customer_id = IF q.body_customer_id # 0
                                       THEN q.body_customer_id
                                       ELSE addresses[q.id].customer_id]]
    /\ UNCHANGED <<customers, addresses, nextCustId, nextAddrId, nreq, faults, boot>>

\* SELECT customer_id FROM addresses WHERE id = ? and its callback.
PutAddress_CheckAddress(r) ==
    LET q == req[r]
        s == Stmt("selectAddress", 0) IN
    /\ q.kind = "putAddress" /\ s \in q.pend
    /\ \E ok \in StoreOutcomes :
        /\ Charge(ok)
        /\ req' = [req EXCEPT ![r] =
              IF ~ok
              THEN Respond(After(q, s, {}), 500, "Error checking address existence")
              ELSE IF q.id \notin DOMAIN addresses
              THEN Respond(After(q, s, {}), 404, "Address not found")
              ELSE [After(q, s,
                     (IF Truthy(q.is_primary) THEN {Stmt("clearPrimary", 0)} ELSE {})
                     \cup {Stmt("updateAddress", 0)})
                    EXCEPT !.customer_id = addresses[q.id].customer_id]]
    /\ UNCHANGED <<customers, addresses, nextCustId, nextAddrId, nreq, boot>>

\* UPDATE addresses SET ... WHERE id = ? and its callback.
PutAddress_Update(r) ==
    LET q == req[r]
        s == Stmt("updateAddress", 0) IN
    /\ q.kind = "putAddress" /\ s \in q.pend
    /\ \E ok \in StoreOutcomes :
        /\ Charge(ok)
        /\ IF ~ok
           THEN /\ UNCHANGED addresses
                /\ req' = [req EXCEPT ![r] =
                     Respond(After(q, s, {}), 500, "Error updating address")]
           ELSE IF q.id \notin DOMAIN addresses
           THEN /\ UNCHANGED addresses
                /\ req' = [req EXCEPT ![r] =
                     Respond(After(q, s, {}), 404, "Address not found")]
           ELSE /\ addresses' = [addresses EXCEPT ![q.id] =
                     [@ EXCEPT !.address_line1 = q.address_line1,
                               !.is_primary = OrFalse(q.is_primary)]]
                /\ req' = [req EXCEPT ![r] =
                     Respond(After(q, s, {Stmt("updateFlags", 0)}),
                             200, "Address updated successfully")]
    /\ UNCHANGED <<customers, nextCustId, nextAddrId, nreq, boot>>

\* DELETE /api/addresses/:id arrives.
DeleteAddress(r) ==
    /\ CanReceive(r)
    /\ \E a \in 1 .. nextAddrId :
        Receive(r, [NoReq EXCEPT !.kind = "deleteAddress", !.id = a,
                       !.pend = {Stmt("selectAddress", 0)}, !.pre = Snapshot])
    /\ UNCHANGED <<customers, addresses, nextCustId, nextAddrId, faults, boot>>

\* SELECT customer_id FROM addresses WHERE id = ? and its callback.
DeleteAddress_CheckAddress(r) ==
    LET q == req[r]
        s == Stmt("selectAddress", 0) IN
    /\ q.kind = "deleteAddress" /\ s \in q.pend
    /\ \E ok \in StoreOutcomes :
        /\ Charge(ok)
        /\ req' = [req EXCEPT ![r] =
              IF ~ok
              THEN Respond(After(q, s, {}), 500, "Error checking address existence")
              ELSE IF q.id \notin DOMAIN addresses
              THEN Respond(After(q, s, {}), 404, "Address not found")
              ELSE [After(q, s, {Stmt("deleteAddress", 0)})
                    EXCEPT !.customer_id = addresses[q.id].customer_id]]
    /\ UNCHANGED <<customers, addresses, nextCustId, nextAddrId, nreq, boot>>

\* DELETE FROM addresses WHERE id = ? and its callback.
DeleteAddress_Delete(r) ==
    LET q == req[r]
        s == Stmt("deleteAddress", 0) IN
    /\ q.kind = "deleteAddress" /\ s \in q.pend
    /\ \E ok \in StoreOutcomes :
        /\ Charge(ok)
        /\ IF ok
           THEN /\ addresses' = DeleteAddressStmt(addresses, q.id)
                /\ req' = [req EXCEPT ![r] =
                     Respond(After(q, s, {Stmt("updateFlags", 0)}),
                             200, "Address deleted successfully")]
           ELSE /\ UNCHANGED addresses
                /\ req' = [req EXCEPT ![r] =
                     Respond(After(q, s, {}), 500, "Error deleting address")]
    /\ UNCHANGED <<customers, nextCustId, nextAddrId, nreq, boot>>

----
\* routes/customers.js (its text is the second half of README.md)

\* A nested address payload of POST / PUT customers.  The array is accepted as is
\* (validateCustomer only checks that it is an array): address_line1 = 0 is a
\* payload whose NOT NULL fields are missing.
AddressPayloads == [address_line1 : 0 .. MaxNestedLine, is_primary : BOOLEAN]

\* A null element of the array (JSON null): validateCustomer accepts it too.
NullPayload == [address_line1 |-> -1, is_primary |-> FALSE]

AddressLists ==
    UNION {[1 .. k -> AddressPayloads \cup {NullPayload}] : k \in 0 .. MaxList}

\* `addresses && addresses.length > 0`
HasAddresses(q) == q.given /\ Len(q.addresses) > 0

\* A duplicate-phone lookup that excludes every row.
PhoneTaken_Never(cs, phone, except) == FALSE

\* SELECT id FROM customers WHERE phone_number = ? [AND id != ?]
PhoneTaken(cs, phone, except) ==
    \E c \in DOMAIN cs : c # except /\ cs[c].phone_number = phone

\* A duplicate-email lookup without "AND id != ?".
EmailTaken_IncludingSelf(cs, email, except) ==
    \E c \in DOMAIN cs : cs[c].email = email

\* SELECT id FROM customers WHERE email = ? [AND id != ?]
EmailTaken(cs, email, except) ==
    \E c \in DOMAIN cs : c # except /\ cs[c].email = email

\* phone_number TEXT UNIQUE NOT NULL, email TEXT UNIQUE (NULLs never collide).
UniqueOk(cs, phone, email, except) ==
    /\ ~PhoneTaken(cs, phone, except)
    /\ email = 0 \/ ~EmailTaken(cs, email, except)

\* The NOT NULL columns of addresses are bound to non-null values.
NotNullOk(payload) == payload.address_line1 # 0

\* A callback that calls updateAddressFlags as soon as the first INSERT has
\* completed, not the last.
InsertNestedAddress_AfterFirst(r, i, code, text) ==
    LET q == req[r]
        s == Stmt("insertAddress", i)
        n == q.addressCount + 1
        last == n = 1
        q1 == [After(q, s, IF last THEN {Stmt("updateFlags", 0)} ELSE {})
               EXCEPT !.addressCount = n]
        q2 == IF last THEN Respond(q1, code, text) ELSE q1 IN
    /\ s \in q.pend
    /\ \E ok \in StoreOutcomes :
        /\ Charge(ok)
        /\ IF ok /\ NotNullOk(q.addresses[i])
           THEN /\ addresses' = InsertAddressStmt(addresses, nextAddrId,
                     AddressRow(q.customer_id, q.addresses[i].address_line1,
                                q.addresses[i].is_primary))
                /\ nextAddrId' = nextAddrId + 1
           ELSE UNCHANGED <<addresses, nextAddrId>>
    /\ req' = [req EXCEPT ![r] = q2]
    /\ UNCHANGED <<customers, nextCustId, nreq, boot>>

\* A callback that, when its INSERT fails, removes the addresses of the customer
\* inserted so far and answers 500.
InsertNestedAddress_RollBack(r, i, code, text) ==
    LET q == req[r]
        s == Stmt("insertAddress", i)
        n == q.addressCount + 1
        last == n = Len(q.addresses)
        q1 == [After(q, s, IF last THEN {Stmt("updateFlags", 0)} ELSE {})
               EXCEPT !.addressCount = n]
        q2 == IF last THEN Respond(q1, code, text) ELSE q1 IN
    /\ s \in q.pend
    /\ \E ok \in StoreOutcomes :
        /\ Charge(ok)
        /\ IF ok /\ NotNullOk(q.addresses[i])
           THEN /\ addresses' = InsertAddressStmt(addresses, nextAddrId,
                     AddressRow(q.customer_id, q.addresses[i].address_line1,
                                q.addresses[i].is_primary))
                /\ nextAddrId' = nextAddrId + 1
                /\ req' = [req EXCEPT ![r] = q2]
           ELSE /\ addresses' = DeleteAddressesStmt(addresses, q.customer_id)
                /\ nextAddrId' = nextAddrId
                /\ req' = [req EXCEPT ![r] =
                     Respond([q1 EXCEPT !.pend = {}], 500, "Error creating address")]
    /\ UNCHANGED <<customers, nextCustId, nreq, boot>>

\* The address INSERT of the forEach loops of createCustomerWithAddresses and
\* updateCustomer, with its callback: the error is only logged, addressCount is
\* incremented, and the last callback calls updateAddressFlags, which issues the
\* flag UPDATE and sends the response.
InsertNestedAddress(r, i, code, text) ==
    LET q == req[r]
        s == Stmt("insertAddress", i)
        n == q.addressCount + 1
        last == n = Len(q.addresses)
        q1 == [After(q, s, IF last THEN {Stmt("updateFlags", 0)} ELSE {})
               EXCEPT !.addressCount = n]
        q2 == IF last THEN Respond(q1, code, text) ELSE q1 IN
    /\ s \in q.pend
    /\ \E ok \in StoreOutcomes :
        /\ Charge(ok)
        /\ IF ok /\ NotNullOk(q.addresses[i])
           THEN /\ addresses' = InsertAddressStmt(addresses, nextAddrId,
                     AddressRow(q.customer_id, q.addresses[i].address_line1,
                                q.addresses[i].is_primary))
                /\ nextAddrId' = nextAddrId + 1
           ELSE UNCHANGED <<addresses, nextAddrId>>
    /\ req' = [req EXCEPT ![r] = q2]
    /\ UNCHANGED <<customers, nextCustId, nreq, boot>>

\* `address.address_line1` on a null element throws a TypeError inside the
\* callback that runs the forEach loop.
HasNull(q) == \E i \in 1 .. Len(q.addresses) : q.addresses[i] = NullPayload

\* The INSERTs the forEach loop issues: one per element, up to the element on
\* which it throws.
NestedInserts(q) ==
    {Stmt("insertAddress", i) :
        i \in {j \in 1 .. Len(q.addresses) :
                  \A k \in 1 .. j : q.addresses[k] # NullPayload}}

\* An exception thrown in a statement callback is caught by nothing (the try
\* block of the handler has returned, the process has no uncaughtException
\* handler): the process dies and the request is never answered.
Crash(q) == [q EXCEPT !.message = "uncaught TypeError"]

\* addresses.forEach(...) run from the callback of statement s.
ForEachAddress(q, s) ==
    IF HasNull(q) THEN Crash(After(q, s, NestedInserts(q)))
    ELSE After(q, s, NestedInserts(q))

\* updateAddressFlags(customerId) of POST and PUT customers: the flag UPDATE (the
\* response was sent when it was issued); errors are only logged.
updateAddressFlags(r) ==
    LET s == Stmt("updateFlags", 0) IN
    /\ req[r].kind \in {"postCustomer", "putCustomer"}
    /\ s \in req[r].pend
    /\ \E ok \in StoreOutcomes :
        /\ Charge(ok)
        /\ customers' = IF ok
                        THEN UpdateFlagsStmt(customers, addresses, req[r].customer_id)
                        ELSE customers
    /\ req' = [req EXCEPT ![r] = After(@, s, {})]
    /\ UNCHANGED <<addresses, nextCustId, nextAddrId, nreq, boot>>

\* POST /api/customers arrives: 400 on a body that fails validateCustomer (one
\* such body is drawn), else the duplicate-phone SELECT is issued.
PostCustomer(r) ==
    /\ CanReceive(r)
    /\ \E ph \in {0} \cup Phones, em \in Emails, g \in BOOLEAN, as \in AddressLists :
        LET q == [NoReq EXCEPT !.kind = "postCustomer", !.phone_number = ph,
                          !.email = em, !.given = g, !.addresses = as,
                          !.pend = {Stmt("selectPhone", 0)}, !.pre = Snapshot] IN
        /\ ~g => as = <<>>
        /\ ph = 0 => (em = 0 /\ ~g)
        /\ Receive(r, IF validateCustomer(q) THEN q ELSE RejectInvalid(q))
    /\ UNCHANGED <<customers, addresses, nextCustId, nextAddrId, faults, boot>>

\* A duplicate-phone callback that answers 400 and goes on to the next check.
PostCustomer_CheckPhone_NoReturn(r) ==
    LET q == req[r]
        s == Stmt("selectPhone", 0)
        next == IF q.email # 0 THEN {Stmt("selectEmail", 0)}
                ELSE {Stmt("insertCustomer", 0)} IN
    /\ q.kind = "postCustomer" /\ s \in q.pend
    /\ req' = [req EXCEPT ![r] =
          IF PhoneTaken(customers, q.phone_number, 0)
          THEN Respond(After(q, s, next), 400, "Phone number already exists")
          ELSE After(q, s, next)]
    /\ UNCHANGED <<customers, addresses, nextCustId, nextAddrId, nreq, faults, boot>>

\* SELECT id FROM customers WHERE phone_number = ? and its callback.
PostCustomer_CheckPhone(r) ==
    LET q == req[r]
        s == Stmt("selectPhone", 0) IN
    /\ q.kind = "postCustomer" /\ s \in q.pend
    /\ \E ok \in StoreOutcomes :
        /\ Charge(ok)
        /\ req' = [req EXCEPT ![r] =
              IF ~ok
              THEN Respond(After(q, s, {}), 500, "Error checking duplicate phone number")
              ELSE IF PhoneTaken(customers, q.phone_number, 0)
              THEN Respond(After(q, s, {}), 400, "Phone number already exists")
              ELSE IF q.email # 0
              THEN After(q, s, {Stmt("selectEmail", 0)})
              ELSE After(q, s, {Stmt("insertCustomer", 0)})]
    /\ UNCHANGED <<customers, addresses, nextCustId, nextAddrId, nreq, boot>>

\* SELECT id FROM customers WHERE email = ? and its callback.
PostCustomer_CheckEmail(r) ==
    LET q == req[r]
        s == Stmt("selectEmail", 0) IN
    /\ q.kind = "postCustomer" /\ s \in q.pend
    /\ \E ok \in StoreOutcomes :
        /\ Charge(ok)
        /\ req' = [req EXCEPT ![r] =
              IF ~ok
              THEN Respond(After(q, s, {}), 500, "Error checking duplicate email")
              ELSE IF EmailTaken(customers, q.email, 0)
              THEN Respond(After(q, s, {}), 400, "Email already exists")
              ELSE After(q, s, {Stmt("insertCustomer", 0)})]
    /\ UNCHANGED <<customers, addresses, nextCustId, nextAddrId, nreq, boot>>

\* createCustomerWithAddresses(): INSERT INTO customers and its callback, which
\* issues one address INSERT per payload, or calls updateAddressFlags at once.
createCustomerWithAddresses(r) ==
    LET q == req[r]
        s == Stmt("insertCustomer", 0) IN
    /\ q.kind = "postCustomer" /\ s \in q.pend
    /\ \E ok \in StoreOutcomes :
        /\ Charge(ok)
        /\ IF ok /\ UniqueOk(customers, q.phone_number, q.email, 0)
           THEN /\ customers' =
                     [c \in DOMAIN customers \cup {nextCustId} |->
                        IF c = nextCustId
                        THEN CustomerRow(q.phone_number, q.email)
                        ELSE customers[c]]
                /\ nextCustId' = nextCustId + 1
                /\ req' = [req EXCEPT ![r] =
                     LET q1 == [q EXCEPT !.customer_id = nextCustId,
                                         !.lastID = nextCustId] IN
                     IF HasAddresses(q)
                     THEN ForEachAddress(q1, s)
                     ELSE Respond(After(q1, s, {Stmt("updateFlags", 0)}),
                                  201, "Customer created successfully")]
           ELSE /\ UNCHANGED <<customers, nextCustId>>
                /\ req' = [req EXCEPT ![r] =
                     Respond(After(q, s, {}), 500, "Error creating customer")]
    /\ UNCHANGED <<addresses, nextAddrId, nreq, boot>>

\* One address INSERT of createCustomerWithAddresses.
PostCustomer_InsertAddress(r) ==
    /\ req[r].kind = "postCustomer"
    /\ \E i \in 1 .. Len(req[r].addresses) :
        InsertNestedAddress(r, i, 201, "Customer created successfully")

\* PUT /api/customers/:id arrives: 400 on a body that fails validateCustomer.
PutCustomer(r) ==
    /\ CanReceive(r)
    /\ \E c \in 1 .. nextCustId, ph \in {0} \cup Phones, em \in Emails,
          g \in BOOLEAN, as \in AddressLists :
        LET q == [NoReq EXCEPT !.kind = "putCustomer", !.id = c,
                          !.customer_id = c, !.phone_number = ph,
                          !.email = em, !.given = g, !.addresses = as,
                          !.pend = {Stmt("selectCustomer", 0)}, !.pre = Snapshot] IN
        /\ ~g => as = <<>>
        /\ ph = 0 => (c = 1 /\ em = 0 /\ ~g)
        /\ Receive(r, IF validateCustomer(q) THEN q ELSE RejectInvalid(q))
    /\ UNCHANGED <<customers, addresses, nextCustId, nextAddrId, faults, boot>>

\* SELECT id FROM customers WHERE id = ? and its callback.
PutCustomer_CheckCustomer(r) ==
    LET q == req[r]
        s == Stmt("selectCustomer", 0) IN
    /\ q.kind = "putCustomer" /\ s \in q.pend
    /\ \E ok \in StoreOutcomes :
        /\ Charge(ok)
        /\ req' = [req EXCEPT ![r] =
              IF ~ok
              THEN Respond(After(q, s, {}), 500, "Error checking customer existence")
              ELSE IF q.id \notin DOMAIN customers
              THEN Respond(After(q, s, {}), 404, "Customer not found")
              ELSE After(q, s, {Stmt("selectPhone", 0)})]
    /\ UNCHANGED <<customers, addresses, nextCustId, nextAddrId, nreq, boot>>

\* SELECT id FROM customers WHERE phone_number = ? AND id != ? and its callback.
PutCustomer_CheckPhone(r) ==
    LET q == req[r]
        s == Stmt("selectPhone", 0) IN
    /\ q.kind = "putCustomer" /\ s \in q.pend
    /\ \E ok \in StoreOutcomes :
        /\ Charge(ok)
        /\ req' = [req EXCEPT ![r] =
              IF ~ok
              THEN Respond(After(q, s, {}), 500, "Error checking duplicate phone number")
              ELSE IF PhoneTaken(customers, q.phone_number, q.id)
              THEN Respond(After(q, s, {}), 400, "Phone number already exists")
              ELSE IF q.email # 0
              THEN After(q, s, {Stmt("selectEmail", 0)})
              ELSE After(q, s, {Stmt("updateCustomer", 0)})]
    /\ UNCHANGED <<customers, addresses, nextCustId, nextAddrId, nreq, boot>>

\* SELECT id FROM customers WHERE email = ? AND id != ? and its callback.
PutCustomer_CheckEmail(r) ==
    LET q == req[r]
        s == Stmt("selectEmail", 0) IN
    /\ q.kind = "putCustomer" /\ s \in q.pend
    /\ \E ok \in StoreOutcomes :
        /\ Charge(ok)
        /\ req' = [req EXCEPT ![r] =
              IF ~ok
              THEN Respond(After(q, s, {}), 500, "Error checking duplicate email")
              ELSE IF EmailTaken(customers, q.email, q.id)
              THEN Respond(After(q, s, {}), 400, "Email already exists")
              ELSE After(q, s, {Stmt("updateCustomer", 0)})]
    /\ UNCHANGED <<customers, addresses, nextCustId, nextAddrId, nreq, boot>>

\* updateCustomer(): UPDATE customers SET ... WHERE id = ? and its callback, which
\* issues DELETE FROM addresses WHERE customer_id = ? in both branches.
updateCustomer(r) ==
    LET q == req[r]
        s == Stmt("updateCustomer", 0) IN
    /\ q.kind = "putCustomer" /\ s \in q.pend
    /\ \E ok \in StoreOutcomes :
        /\ Charge(ok)
        /\ IF ~(ok /\ (q.id \in DOMAIN customers =>
                        UniqueOk(customers, q.phone_number, q.email, q.id)))
           THEN /\ UNCHANGED customers
                /\ req' = [req EXCEPT ![r] =
                     Respond(After(q, s, {}), 500, "Error updating customer")]
           ELSE IF q.id \notin DOMAIN customers
           THEN /\ UNCHANGED customers
                /\ req' = [req EXCEPT ![r] =
                     Respond(After(q, s, {}), 404, "Customer not found")]
           ELSE /\ customers' = [customers EXCEPT ![q.id] =
                     [@ EXCEPT !.phone_number = q.phone_number, !.email = q.email]]
                /\ req' = [req EXCEPT ![r] = After(q, s, {Stmt("deleteAddresses", 0)})]
    /\ UNCHANGED <<addresses, nextCustId, nextAddrId, nreq, boot>>

\* DELETE FROM addresses WHERE customer_id = ? and its callback (the error is only
\* logged): the address INSERTs of a non-empty list, or updateAddressFlags.
PutCustomer_DeleteAddresses(r) ==
    LET q == req[r]
        s == Stmt("deleteAddresses", 0) IN
    /\ q.kind = "putCustomer" /\ s \in q.pend
    /\ \E ok \in StoreOutcomes :
        /\ Charge(ok)
        /\ addresses' = IF ok THEN DeleteAddressesStmt(addresses, q.customer_id)
                        ELSE addresses
    /\ req' = [req EXCEPT ![r] =
          IF HasAddresses(q)
          THEN ForEachAddress(q, s)
          ELSE Respond(After(q, s, {Stmt("updateFlags", 0)}),
                       200, "Customer updated successfully")]
    /\ UNCHANGED <<customers, nextCustId, nextAddrId, nreq, boot>>

\* One address INSERT of updateCustomer.
PutCustomer_InsertAddress(r) ==
    /\ req[r].kind = "putCustomer"
    /\ \E i \in 1 .. Len(req[r].addresses) :
        InsertNestedAddress(r, i, 200, "Customer updated successfully")

\* DELETE /api/customers/:id arrives.
DeleteCustomer(r) ==
    /\ CanReceive(r)
    /\ \E c \in 1 .. nextCustId :
        Receive(r, [NoReq EXCEPT !.kind = "deleteCustomer", !.id = c,
                       !.customer_id = c,
                       !.pend = {Stmt("selectCustomer", 0)}, !.pre = Snapshot])
    /\ UNCHANGED <<customers, addresses, nextCustId, nextAddrId, faults, boot>>

\* SELECT id FROM customers WHERE id = ? and its callback.
DeleteCustomer_CheckCustomer(r) ==
    LET q == req[r]
        s == Stmt("selectCustomer", 0) IN
    /\ q.kind = "deleteCustomer" /\ s \in q.pend
    /\ \E ok \in StoreOutcomes :
        /\ Charge(ok)
        /\ req' = [req EXCEPT ![r] =
              IF ~ok
              THEN Respond(After(q, s, {}), 500, "Error checking customer existence")
              ELSE IF q.id \notin DOMAIN customers
              THEN Respond(After(q, s, {}), 404, "Customer not found")
              ELSE After(q, s, {Stmt("deleteCustomer", 0)})]
    /\ UNCHANGED <<customers, addresses, nextCustId, nextAddrId, nreq, boot>>

\* DELETE FROM customers WHERE id = ? and its callback.
DeleteCustomer_Delete(r) ==
    LET q == req[r]
        s == Stmt("deleteCustomer", 0) IN
    /\ q.kind = "deleteCustomer" /\ s \in q.pend
    /\ \E ok \in StoreOutcomes :
        /\ Charge(ok)
        /\ IF ok
           THEN /\ customers' = [c \in DOMAIN customers \ {q.id} |-> customers[c]]
                /\ addresses' = CascadeStmt(addresses, q.id)
                /\ req' = [req EXCEPT ![r] =
                     Respond(After(q, s, {}), 200, "Customer deleted successfully")]
           ELSE /\ UNCHANGED <<customers, addresses>>
                /\ req' = [req EXCEPT ![r] =
                     Respond(After(q, s, {}), 500, "Error deleting customer")]
    /\ UNCHANGED <<nextCustId, nextAddrId, nreq, boot>>

\* customers c INNER JOIN addresses a ON c.id = a.customer_id: the joined rows.
JoinAddresses(cs, as) ==
    {p \in (DOMAIN cs) \X (DOMAIN as) : as[p[2]].customer_id = p[1]}

\* GROUP BY c.id with COUNT(a.id): the count of the group of customer c.
GroupCount(cs, as, c) == Cardinality({p \in JoinAddresses(cs, as) : p[1] = c})

\* GET /api/customers/multiple-addresses: the ids of the rows of
\* ... GROUP BY c.id HAVING COUNT(a.id) > 1
GetMultipleAddresses(cs, as) ==
    {c \in {p[1] : p \in JoinAddresses(cs, as)} : GroupCount(cs, as, c) > 1}

\* GET /api/customers/single-address: ... GROUP BY c.id HAVING COUNT(a.id) = 1
GetSingleAddress(cs, as) ==
    {c \in {p[1] : p \in JoinAddresses(cs, as)} : GroupCount(cs, as, c) = 1}

\* GET /api/customers/:id: the status of the response.
GetCustomer(cs, id) == IF id \in DOMAIN cs THEN 200 ELSE 404

----
\* server/database/database.js: initializeDatabase() and insertSampleData().
\* db.serialize(callback) serializes only the statements issued while its callback
\* runs (the CREATEs and the COUNT); the INSERTs and UPDATEs issued later from
\* callbacks run in the handle's parallel mode.

\* sampleCustomers.length
NumSampleCustomers == 3

\* addresses.length of the two sample addresses of each sample customer
NumSampleAddresses == 2

BootStmt(op, i, j) == [op |-> op, i |-> i, j |-> j]

\* SELECT COUNT(*) as count FROM customers and its callback: resolve at once on
\* a store that holds a customer, else issue the sample customer INSERTs.
insertSampleData(b) ==
    /\ boot.pc = "count"
    /\ boot' = IF Cardinality(DOMAIN customers) > 0
               THEN [boot EXCEPT !.pc = "resolved"]
               ELSE [boot EXCEPT !.pc = "inserting",
                        !.pend = {BootStmt("insertCustomer", k, 0) :
                                    k \in 1 .. NumSampleCustomers}]
    /\ b = 0
    /\ UNCHANGED <<customers, addresses, nextCustId, nextAddrId, req, nreq, faults>>

\* INSERT INTO customers of sample customer k and its callback: the two address
\* INSERTs for this.lastID; completed++; the last callback issues both flag UPDATEs.
insertSampleData_InsertCustomer(k) ==
    LET s == BootStmt("insertCustomer", k, 0)
        done == boot.completed + 1
        flagStmts == IF done = NumSampleCustomers
                     THEN {BootStmt("flagMultiple", 0, 0), BootStmt("flagSingle", 0, 0)}
                     ELSE {} IN
    /\ s \in boot.pend
    /\ \E ok \in StoreOutcomes :
        /\ Charge(ok)
        /\ IF ok
           THEN /\ customers' =
                     [c \in DOMAIN customers \cup {nextCustId} |->
                        IF c = nextCustId THEN CustomerRow(k, k) ELSE customers[c]]
                /\ nextCustId' = nextCustId + 1
                /\ boot' = [boot EXCEPT !.completed = done,
                              !.pend = (@ \ {s}) \cup flagStmts \cup
                                  {BootStmt("insertAddress", nextCustId, j) :
                                      j \in 1 .. NumSampleAddresses}]
           ELSE /\ UNCHANGED <<customers, nextCustId>>
                /\ boot' = [boot EXCEPT !.completed = done,
                              !.pend = (@ \ {s}) \cup flagStmts]
    /\ UNCHANGED <<addresses, nextAddrId, req, nreq>>

\* INSERT INTO addresses of sample address j of customer c; the first of the two
\* is the primary one.  Its callback only logs an error.
insertSampleData_InsertAddress(c, j) ==
    LET s == BootStmt("insertAddress", c, j) IN
    /\ s \in boot.pend
    /\ \E ok \in StoreOutcomes :
        /\ Charge(ok)
        /\ IF ok
           THEN /\ addresses' = InsertAddressStmt(addresses, nextAddrId,
                                    AddressRow(c, j, j = 1))
                /\ nextAddrId' = nextAddrId + 1
           ELSE UNCHANGED <<addresses, nextAddrId>>
    /\ boot' = [boot EXCEPT !.pend = @ \ {s}]
    /\ UNCHANGED <<customers, nextCustId, req, nreq>>

\* UPDATE customers SET has_multiple_addresses = TRUE WHERE id IN
\* (... GROUP BY customer_id HAVING COUNT(*) > 1)
FlagMultipleStmt(cs, as) ==
    [c \in DOMAIN cs |->
        IF CountAddresses(as, c) > 1
        THEN [cs[c] EXCEPT !.has_multiple_addresses = TRUE]
        ELSE cs[c]]

\* UPDATE customers SET only_one_address = TRUE WHERE id IN
\* (... GROUP BY customer_id HAVING COUNT(*) = 1)
FlagSingleStmt(cs, as) ==
    [c \in DOMAIN cs |->
        IF CountAddresses(as, c) = 1
        THEN [cs[c] EXCEPT !.only_one_address = TRUE]
        ELSE cs[c]]

\* The first flag UPDATE of insertSampleData; its callback only logs an error.
insertSampleData_FlagMultiple(b) ==
    LET s == BootStmt("flagMultiple", 0, 0) IN
    /\ s \in boot.pend
    /\ \E ok \in StoreOutcomes :
        /\ Charge(ok)
        /\ customers' = IF ok THEN FlagMultipleStmt(customers, addresses) ELSE customers
    /\ boot' = [boot EXCEPT !.pend = @ \ {s}]
    /\ b = 0
    /\ UNCHANGED <<addresses, nextCustId, nextAddrId, req, nreq>>

\* The second flag UPDATE of insertSampleData; its callback calls resolve().
insertSampleData_FlagSingle(b) ==
    LET s == BootStmt("flagSingle", 0, 0) IN
    /\ s \in boot.pend
    /\ \E ok \in StoreOutcomes :
        /\ Charge(ok)
        /\ customers' = IF ok THEN FlagSingleStmt(customers, addresses) ELSE customers
    /\ boot' = [boot EXCEPT !.pend = @ \ {s}, !.pc = "resolved"]
    /\ b = 0
    /\ UNCHANGED <<addresses, nextCustId, nextAddrId, req, nreq>>

----
\* The store when the server starts: rows persisted by earlier runs.

AtMostOnePrimary(as, customerId) == Cardinality(PrimariesOf(as, customerId)) <= 1

FlagsMatch(cs, as, c) ==
    /\ cs[c].has_multiple_addresses = (CountAddresses(as, c) > 1)
    /\ cs[c].only_one_address = (CountAddresses(as, c) = 1)

SeedAddresses(n, m) ==
    {as \in [1 .. m -> [customer_id : 1 .. n, address_line1 : {1}, is_primary : BOOLEAN]] :
        \A c \in 1 .. n : AtMostOnePrimary(as, c)}

SeedCustomers(n, as) ==
    [c \in 1 .. n |->
        [phone_number |-> c, email |-> IF c = 1 THEN 1 ELSE 0,
         has_multiple_addresses |-> CountAddresses(as, c) > 1,
         only_one_address |-> CountAddresses(as, c) = 1]]

InitStore ==
    \E n \in 0 .. MaxSeedCustomers, m \in 0 .. MaxSeedAddresses :
        \E as \in SeedAddresses(n, m) :
            /\ addresses = as
            /\ customers = SeedCustomers(n, as)
            /\ nextCustId = n + 1
            /\ nextAddrId = m + 1

NoBoot == [pc |-> "ready", pend |-> {}, completed |-> 0]

Init ==
    /\ InitStore
    /\ req = [r \in Slots |-> NoReq]
    /\ nreq = 0
    /\ faults = 0
    /\ boot = NoBoot

\* Address requests, one at a time: the next is received when the one before is
\* complete.
NextAddr ==
    \E r \in {1} :
        \/ PostAddress(r)
        \/ PostAddress_CheckCustomer(r)
        \/ PostAddress_Insert(r)
        \/ PutAddress(r)
        \/ PutAddress_CheckAddress(r)
        \/ PutAddress_Update(r)
        \/ DeleteAddress(r)
        \/ DeleteAddress_CheckAddress(r)
        \/ DeleteAddress_Delete(r)
        \/ ClearOtherPrimaries(r)
        \/ updateCustomerAddressFlags(r)

SpecAddr == Init /\ [][NextAddr]_vars

\* Every request of the two routers, one at a time.
Next ==
    \E r \in {1} :
        \/ PostAddress(r)
        \/ PostAddress_CheckCustomer(r)
        \/ PostAddress_Insert(r)
        \/ PutAddress(r)
        \/ PutAddress_CheckAddress(r)
        \/ PutAddress_Update(r)
        \/ DeleteAddress(r)
        \/ DeleteAddress_CheckAddress(r)
        \/ DeleteAddress_Delete(r)
        \/ ClearOtherPrimaries(r)
        \/ updateCustomerAddressFlags(r)
        \/ PostCustomer(r)
        \/ PostCustomer_CheckPhone(r)
        \/ PostCustomer_CheckEmail(r)
        \/ createCustomerWithAddresses(r)
        \/ PostCustomer_InsertAddress(r)
        \/ PutCustomer(r)
        \/ PutCustomer_CheckCustomer(r)
        \/ PutCustomer_CheckPhone(r)
        \/ PutCustomer_CheckEmail(r)
        \/ updateCustomer(r)
        \/ PutCustomer_DeleteAddresses(r)
        \/ PutCustomer_InsertAddress(r)
        \/ updateAddressFlags(r)
        \/ DeleteCustomer(r)
        \/ DeleteCustomer_CheckCustomer(r)
        \/ DeleteCustomer_Delete(r)

Spec == Init /\ [][Next]_vars

\* Address requests handled at the same time: a request is received while others
\* are in flight, and the statements of all of them are executed in any order
\* that respects "issued from the callback of".
NextConc ==
    \E r \in Slots :
        \/ PostAddress(r)
        \/ PostAddress_CheckCustomer(r)
        \/ PostAddress_Insert(r)
        \/ PutAddress(r)
        \/ PutAddress_CheckAddress(r)
        \/ PutAddress_Update(r)
        \/ DeleteAddress(r)
        \/ DeleteAddress_CheckAddress(r)
        \/ DeleteAddress_Delete(r)
        \/ ClearOtherPrimaries(r)
        \/ updateCustomerAddressFlags(r)

SpecConc == Init /\ [][NextConc]_vars

\* POST /addresses and DELETE /customers/:id handled at the same time.
NextConcCust ==
    \E r \in Slots :
        \/ PostAddress(r)
        \/ PostAddress_CheckCustomer(r)
        \/ PostAddress_Insert(r)
        \/ ClearOtherPrimaries(r)
        \/ updateCustomerAddressFlags(r)
        \/ DeleteCustomer(r)
        \/ DeleteCustomer_CheckCustomer(r)
        \/ DeleteCustomer_Delete(r)

SpecConcCust == Init /\ [][NextConcCust]_vars

\* Address-set-changing requests on customer 1 handled at the same time:
\* POST /addresses (no is_primary), DELETE /addresses/:id and PUT /customers/:id
\* (its own phone number, a list of non-primary addresses).
NextConcFlags ==
    \E r \in Slots :
        \/ /\ PostAddress(r)
           /\ req'[r].customer_id = 1
           /\ req'[r].is_primary = "absent"
           /\ req'[r].address_line1 # 0
        \/ PostAddress_CheckCustomer(r)
        \/ PostAddress_Insert(r)
        \/ DeleteAddress(r)
        \/ DeleteAddress_CheckAddress(r)
        \/ DeleteAddress_Delete(r)
        \/ updateCustomerAddressFlags(r)
        \/ /\ PutCustomer(r)
           /\ req'[r].id = 1
           /\ req'[r].phone_number = 1
           /\ \A i \in 1 .. Len(req'[r].addresses) :
                 /\ req'[r].addresses[i].address_line1 > 0
                 /\ ~req'[r].addresses[i].is_primary
        \/ PutCustomer_CheckCustomer(r)
        \/ PutCustomer_CheckPhone(r)
        \/ PutCustomer_CheckEmail(r)
        \/ updateCustomer(r)
        \/ PutCustomer_DeleteAddresses(r)
        \/ PutCustomer_InsertAddress(r)
        \/ updateAddressFlags(r)

SpecConcFlags == Init /\ [][NextConcFlags]_vars

\* POST /customers and PUT /customers/:id without an addresses field, handled at
\* the same time.
NextConcUnique ==
    \E r \in Slots :
        \/ PostCustomer(r) /\ ~req'[r].given
        \/ PostCustomer_CheckPhone(r)
        \/ PostCustomer_CheckEmail(r)
        \/ createCustomerWithAddresses(r)
        \/ PutCustomer(r) /\ ~req'[r].given
        \/ PutCustomer_CheckCustomer(r)
        \/ PutCustomer_CheckPhone(r)
        \/ PutCustomer_CheckEmail(r)
        \/ updateCustomer(r)
        \/ PutCustomer_DeleteAddresses(r)
        \/ updateAddressFlags(r)

SpecConcUnique == Init /\ [][NextConcUnique]_vars

\* Address requests, one at a time, on a store that may fail MaxFaults statements.
InitFault ==
    /\ InitStore
    /\ req = [r \in Slots |-> NoReq]
    /\ nreq = 0
    /\ faults = MaxFaults
    /\ boot = NoBoot

SpecAddrFault == InitFault /\ [][NextAddr]_vars

\* One more request of either router, handled on a store that may fail MaxFaults
\* of its statements (the requests before it have left the store of Init).
InitOneFault ==
    /\ InitStore
    /\ req = [r \in Slots |-> NoReq]
    /\ nreq = MaxRequests - 1
    /\ faults = MaxFaults
    /\ boot = NoBoot

SpecOneFault == InitOneFault /\ [][Next]_vars

\* A statement issued by the request of slot 1 is executed and its callback runs.
Handle ==
    \E r \in {1} :
        \/ PostAddress_CheckCustomer(r)
        \/ PostAddress_Insert(r)
        \/ PutAddress_CheckAddress(r)
        \/ PutAddress_Update(r)
        \/ DeleteAddress_CheckAddress(r)
        \/ DeleteAddress_Delete(r)
        \/ ClearOtherPrimaries(r)
        \/ updateCustomerAddressFlags(r)
        \/ PostCustomer_CheckPhone(r)
        \/ PostCustomer_CheckEmail(r)
        \/ createCustomerWithAddresses(r)
        \/ PostCustomer_InsertAddress(r)
        \/ PutCustomer_CheckCustomer(r)
        \/ PutCustomer_CheckPhone(r)
        \/ PutCustomer_CheckEmail(r)
        \/ updateCustomer(r)
        \/ PutCustomer_DeleteAddresses(r)
        \/ PutCustomer_InsertAddress(r)
        \/ updateAddressFlags(r)
        \/ DeleteCustomer_CheckCustomer(r)
        \/ DeleteCustomer_Delete(r)

\* One request on a store that may fail statements, every issued statement being
\* executed eventually (the store invokes the callback of every statement).
SpecLive == InitOneFault /\ [][Next]_vars /\ WF_vars(Handle)

\* The server starts: initializeDatabase() on a store persisted by earlier runs
\* (empty on the first run).
InitBoot ==
    /\ InitStore
    /\ req = [r \in Slots |-> NoReq]
    /\ nreq = 0
    /\ faults = 0
    /\ boot = [pc |-> "count", pend |-> {}, completed |-> 0]

NextBoot ==
    \/ insertSampleData(0)
    \/ \E k \in 1 .. NumSampleCustomers : insertSampleData_InsertCustomer(k)
    \/ \E c \in 1 .. NumSampleCustomers, j \in 1 .. NumSampleAddresses :
          insertSampleData_InsertAddress(c, j)
    \/ insertSampleData_FlagMultiple(0)
    \/ insertSampleData_FlagSingle(0)

SpecBoot == InitBoot /\ [][NextBoot]_vars

\* The flag recompute on its own: updateCustomerAddressFlags(customerId) is
\* invoked again and again for one customer of a store whose flags hold any
\* values, with no address statement in between.
MaxRecomputes == 3

InitRecompute ==
    /\ \E n \in 0 .. MaxSeedCustomers, m \in 0 .. MaxSeedAddresses :
        \E as \in SeedAddresses(n, m), hm \in [1 .. n -> BOOLEAN], oo \in [1 .. n -> BOOLEAN] :
            /\ addresses = as
            /\ customers = [c \in 1 .. n |->
                   [SeedCustomers(n, as)[c] EXCEPT !.has_multiple_addresses = hm[c],
                                                   !.only_one_address = oo[c]]]
            /\ nextCustId = n + 1
            /\ nextAddrId = m + 1
    /\ req = [r \in Slots |-> NoReq]
    /\ nreq = 0
    /\ faults = 0
    /\ boot = NoBoot

\* updateCustomerAddressFlags(customerId) run to the end of its UPDATE.
RecomputeFlags(c) ==
    /\ req[1].kind = "none" \/ req[1].customer_id = c
    /\ req[1].addressCount < MaxRecomputes
    /\ customers' = UpdateFlagsStmt(customers, addresses, c)
    /\ req' = [req EXCEPT ![1] =
          [@ EXCEPT !.kind = "recompute", !.customer_id = c,
                    !.addressCount = @ + 1,
                    !.pre = IF req[1].kind = "none" THEN Snapshot ELSE @]]
    /\ UNCHANGED <<addresses, nextCustId, nextAddrId, nreq, faults, boot>>

NextRecompute == \E c \in 1 .. MaxSeedCustomers + 1 : RecomputeFlags(c)

SpecRecompute == InitRecompute /\ [][NextRecompute]_vars

----
\* Properties.

\* The requests that have sent a success response and whose statements have all
\* been executed.
Succeeded(q, kinds) == q.kind \in kinds /\ q.pend = {} /\ q.resp \in {200, 201}

\* C1: starting from a store in which every customer has at most one primary
\* address, after any sequence of POST /addresses, PUT /addresses/:id and
\* DELETE /addresses/:id requests, each run to completion before the next one
\* starts, every customer has 0 or 1 addresses with is_primary = true.
C1_PrimaryExclusivity ==
    Quiescent =>
        \A c \in 1 .. nextCustId :
            Cardinality({a \in DOMAIN addresses :
                addresses[a].customer_id = c /\ addresses[a].is_primary}) <= 1

\* A primary-setting request has completed for a customer that had another
\* primary address when the request arrived.
C1_Witness ==
    \E r \in Slots :
        /\ Quiescent
        /\ Succeeded(req[r], {"postAddress", "putAddress"})
        /\ req[r].is_primary = "true"
        /\ \E a \in DOMAIN req[r].pre.addresses :
            /\ a # req[r].id
            /\ req[r].pre.addresses[a].customer_id = req[r].customer_id
            /\ req[r].pre.addresses[a].is_primary

\* C2: when POST /addresses with is_primary = true for an existing customer has
\* completed successfully, the newly inserted address has is_primary = true and
\* every other address of that customer has is_primary = false.
C2_NewAddressIsThePrimary ==
    \A r \in Slots :
        (Succeeded(req[r], {"postAddress"}) /\ req[r].is_primary = "true") =>
            /\ req[r].lastID \in DOMAIN addresses
            /\ addresses[req[r].lastID].is_primary
            /\ \A a \in DOMAIN addresses :
                (a # req[r].lastID /\ addresses[a].customer_id = req[r].customer_id)
                    => ~addresses[a].is_primary

\* C3: after POST /customers or PUT /customers/:id has completed, whatever the
\* supplied address list, the customer has at most one stored address with
\* is_primary = true.
C3_CustomerWritesKeepOnePrimary ==
    \A r \in Slots :
        Succeeded(req[r], {"postCustomer", "putCustomer"}) =>
            Cardinality({a \in DOMAIN addresses :
                addresses[a].customer_id = req[r].customer_id
                /\ addresses[a].is_primary}) <= 1

\* C4: under every interleaving of the store statements of two concurrent
\* primary-setting requests for the same customer, that customer has at most one
\* address with is_primary = true; stated for the states the claim singles out,
\* those in which both requests have completed.
C4_PrimaryExclusivityConcurrent ==
    (/\ Quiescent
     /\ \A r \in Slots :
           /\ Succeeded(req[r], {"postAddress", "putAddress"})
           /\ req[r].is_primary = "true"
           /\ req[r].customer_id = req[1].customer_id) =>
        Cardinality({a \in DOMAIN addresses :
            addresses[a].customer_id = req[1].customer_id
            /\ addresses[a].is_primary}) <= 1

\* The flags of customer c equal those derived from its live address count.
FlagsDerived(c) ==
    LET n == Cardinality({a \in DOMAIN addresses : addresses[a].customer_id = c}) IN
    /\ customers[c].has_multiple_addresses = (n > 1)
    /\ customers[c].only_one_address = (n = 1)

AddressSetChanging == {"postCustomer", "putCustomer", "postAddress", "deleteAddress"}

\* C5: after any single address-set-changing request (POST /customers,
\* PUT /customers/:id, POST /addresses, DELETE /addresses/:id) has fully completed
\* with no other request in flight, every existing customer has
\* has_multiple_addresses = (live address count > 1) and only_one_address =
\* (live address count = 1).
C5_FlagsCorrectAfterRequest ==
    \A r \in Slots :
        (Quiescent /\ req[r].kind \in AddressSetChanging) =>
            \A c \in DOMAIN customers : FlagsDerived(c)

\* A request has completed that changed the number of addresses of its customer
\* across the boundaries 1 and 2.
C5_Witness ==
    \E r \in Slots :
        /\ Quiescent
        /\ Succeeded(req[r], AddressSetChanging)
        /\ req[r].customer_id \in DOMAIN customers
        /\ req[r].customer_id \in DOMAIN req[r].pre.customers
        /\ customers[req[r].customer_id].has_multiple_addresses
            # req[r].pre.customers[req[r].customer_id].has_multiple_addresses

\* C6: in every reachable state, the state left by sample-data initialization
\* included, no customer has has_multiple_addresses and only_one_address both true.
C6_FlagsNeverBothTrue ==
    \A c \in DOMAIN customers :
        ~(customers[c].has_multiple_addresses /\ customers[c].only_one_address)

\* C7: after DELETE /customers/:id succeeds, no address row has customer_id equal
\* to the deleted id and GET /customers/:id returns not found.
C7_CascadeDelete ==
    \A r \in Slots :
        Succeeded(req[r], {"deleteCustomer"}) =>
            /\ GetCustomer(customers, req[r].id) = 404
            /\ \A a \in DOMAIN addresses : addresses[a].customer_id # req[r].id

\* The rows of customer c are exactly the entries of list: a one-to-one
\* correspondence between the entries and the rows, entry and row alike.
ExactlyTheList(c, list) ==
    LET rows == {a \in DOMAIN addresses : addresses[a].customer_id = c} IN
    \E f \in [1 .. Len(list) -> rows] :
        /\ \A i, j \in 1 .. Len(list) : f[i] = f[j] => i = j
        /\ \A a \in rows : \E i \in 1 .. Len(list) : f[i] = a
        /\ \A i \in 1 .. Len(list) :
            /\ addresses[f[i]].address_line1 = list[i].address_line1
            /\ addresses[f[i]].is_primary = list[i].is_primary

\* C8: after PUT /customers/:id with a non-empty address list L has completed (no
\* other request in flight), none of the addresses the customer owned before
\* remains and its stored addresses are exactly the entries of L.
C8_ReplaceSemantics ==
    \A r \in Slots :
        (/\ Quiescent
         /\ Succeeded(req[r], {"putCustomer"})
         /\ req[r].given /\ Len(req[r].addresses) > 0) =>
            /\ \A a \in DOMAIN req[r].pre.addresses :
                 a \in DOMAIN addresses => addresses[a].customer_id # req[r].id
            /\ ExactlyTheList(req[r].id, req[r].addresses)

\* C9: after PUT /customers/:id with an empty or absent addresses list has
\* completed, the customer owns zero addresses and has has_multiple_addresses =
\* false and only_one_address = false.
C9_EmptyListRemovesAll ==
    \A r \in Slots :
        (/\ Quiescent
         /\ Succeeded(req[r], {"putCustomer"})
         /\ ~(req[r].given /\ Len(req[r].addresses) > 0)) =>
            /\ \A a \in DOMAIN addresses : addresses[a].customer_id # req[r].id
            /\ req[r].id \in DOMAIN customers
            /\ ~customers[req[r].id].has_multiple_addresses
            /\ ~customers[req[r].id].only_one_address

\* Such a request has completed for a customer that owned two or more addresses.
C9_Witness ==
    \E r \in Slots :
        /\ Quiescent
        /\ Succeeded(req[r], {"putCustomer"})
        /\ ~(req[r].given /\ Len(req[r].addresses) > 0)
        /\ Cardinality({a \in DOMAIN req[r].pre.addresses :
               req[r].pre.addresses[a].customer_id = req[r].id}) >= 2

\* The phone number, or the non-empty e-mail, of request q was held by a customer
\* when the request arrived.
HeldBefore(q) ==
    \E c \in DOMAIN q.pre.customers :
        \/ q.pre.customers[c].phone_number = q.phone_number
        \/ (q.email # 0 /\ q.pre.customers[c].email = q.email)

\* C10: when POST /customers is run to completion with a phone_number already held
\* by an existing customer, or with a non-empty email already held by an existing
\* customer, it is rejected with a conflict error (HTTP 400) and inserts no
\* customer row and no address row.
C10_DuplicateRejected ==
    \A r \in Slots :
        (/\ Quiescent
         /\ req[r].kind = "postCustomer"
         /\ HeldBefore(req[r])) =>
            /\ req[r].resp = 400
            /\ customers = req[r].pre.customers
            /\ addresses = req[r].pre.addresses

\* A create with a free phone number and a held e-mail has been rejected.
C10_Witness ==
    \E r \in Slots :
        /\ Quiescent
        /\ req[r].kind = "postCustomer"
        /\ HeldBefore(req[r])
        /\ req[r].message = "Email already exists"

\* C11: the flag recompute is idempotent: run twice or more in succession for a
\* customer, with no address insert or delete in between, it leaves every flag
\* with the value one run gives it.
C11_RecomputeIdempotent ==
    (req[1].kind = "recompute" /\ req[1].addressCount >= 1) =>
        customers = UpdateFlagsStmt(req[1].pre.customers, addresses, req[1].customer_id)

\* The recompute has run twice for a customer whose stored flags were wrong.
C11_Witness ==
    /\ req[1].kind = "recompute"
    /\ req[1].addressCount = 2
    /\ req[1].customer_id \in DOMAIN customers
    /\ customers # req[1].pre.customers
    /\ \E a \in DOMAIN addresses : addresses[a].customer_id = req[1].customer_id

\* C12: DELETE /addresses/:id on the customer's current primary address removes
\* only that row and leaves every remaining address as it was (none is promoted
\* to primary); if exactly one address of the customer remains, the customer's
\* only_one_address is true.
C12_DeletePrimaryNoPromotion ==
    \A r \in Slots :
        (/\ Quiescent
         /\ Succeeded(req[r], {"deleteAddress"})
         /\ req[r].id \in DOMAIN req[r].pre.addresses
         /\ req[r].pre.addresses[req[r].id].is_primary) =>
            LET before == req[r].pre.addresses
                owner == before[req[r].id].customer_id
                left == {a \in DOMAIN addresses : addresses[a].customer_id = owner} IN
            /\ DOMAIN addresses = DOMAIN before \ {req[r].id}
            /\ \A a \in DOMAIN addresses : addresses[a] = before[a]
            /\ (owner \in DOMAIN customers /\ Cardinality(left) = 1) =>
                   customers[owner].only_one_address

\* The primary address of a customer with two addresses has been deleted: the
\* other one remains, not primary.
C12_Witness ==
    \E r \in Slots :
        /\ Quiescent
        /\ Succeeded(req[r], {"deleteAddress"})
        /\ req[r].id \in DOMAIN req[r].pre.addresses
        /\ req[r].pre.addresses[req[r].id].is_primary
        /\ req[r].customer_id \in DOMAIN customers
        /\ customers[req[r].customer_id].only_one_address
        /\ \E a \in DOMAIN addresses :
              addresses[a].customer_id = req[r].customer_id /\ ~addresses[a].is_primary

C14_UnknownCustomerRejected ==
    \A r \in Slots :
        (/\ req[r].kind = "postAddress"
         /\ req[r].address_line1 # 0
         /\ req[r].customer_id \notin DOMAIN req[r].pre.customers) =>
            /\ customers = req[r].pre.customers
            /\ addresses = req[r].pre.addresses
            /\ Complete(req[r]) =>
                  (req[r].resp = 404 /\ req[r].message = "Customer not found")

\* A primary-setting POST /addresses for a deleted customer, whose address is
\* still stored and primary, has been answered.
C14_Witness ==
    \E r \in Slots :
        /\ req[r].kind = "postAddress"
        /\ Complete(req[r])
        /\ req[r].is_primary = "true"
        /\ req[r].customer_id \notin DOMAIN customers
        /\ \E a \in DOMAIN addresses :
              addresses[a].customer_id = req[r].customer_id /\ addresses[a].is_primary

\* C15: in every reachable state, every interleaving of a POST /addresses with a
\* concurrent DELETE /customers/:id for the same customer included, every address
\* row's customer_id is the id of an existing customer row.
C15_NoOrphanAddress ==
    \A a \in DOMAIN addresses : addresses[a].customer_id \in DOMAIN customers

\* C16: PUT /addresses/:id never changes an address's customer_id, whatever the
\* body contains (a customer_id field naming another customer included); it
\* changes no address of any other owner than the one read from the stored row,
\* and its clear-others step leaves the updated address primary.
C16_OwnerFixedOnUpdate ==
    \A r \in Slots :
        req[r].kind = "putAddress" =>
            LET before == req[r].pre.addresses
                id == req[r].id IN
            /\ \A a \in DOMAIN before :
                  /\ a \in DOMAIN addresses
                  /\ addresses[a].customer_id = before[a].customer_id
                  /\ (id \notin DOMAIN before
                      \/ before[a].customer_id # before[id].customer_id)
                        => addresses[a] = before[a]
            /\ (Succeeded(req[r], {"putAddress"}) /\ req[r].is_primary = "true")
                  => addresses[id].is_primary

\* A primary-setting PUT whose body names another customer than the owner has
\* succeeded, and that other customer has a primary address.
C16_Witness ==
    \E r \in Slots :
        /\ Succeeded(req[r], {"putAddress"})
        /\ req[r].is_primary = "true"
        /\ req[r].body_customer_id # 0
        /\ addresses[req[r].id].customer_id # req[r].body_customer_id
        /\ \E a \in DOMAIN addresses :
              /\ addresses[a].customer_id = req[r].body_customer_id
              /\ addresses[a].is_primary

\* The phone number, or the supplied e-mail, of request q was held, when the
\* request arrived, by a customer other than the one the request names.
HeldByAnother(q) ==
    \E c \in DOMAIN q.pre.customers :
        /\ c # q.id
        /\ \/ q.pre.customers[c].phone_number = q.phone_number
           \/ (q.email # 0 /\ q.pre.customers[c].email = q.email)

\* C17: PUT /customers/:id (body passing validation) run to completion: for a
\* non-existent id it returns 404 and changes nothing; with a phone_number or
\* supplied email held by a different customer it returns the conflict error
\* (HTTP 400) and changes no customer row and no address row; otherwise, so with
\* the customer's own current phone_number and email, it is not rejected.
C17_UpdatePreconditions ==
    \A r \in Slots :
        (/\ Quiescent
         /\ req[r].kind = "putCustomer"
         /\ req[r].phone_number # 0) =>
            IF req[r].id \notin DOMAIN req[r].pre.customers
            THEN /\ req[r].resp = 404
                 /\ customers = req[r].pre.customers
                 /\ addresses = req[r].pre.addresses
            ELSE IF HeldByAnother(req[r])
            THEN /\ req[r].resp = 400
                 /\ customers = req[r].pre.customers
                 /\ addresses = req[r].pre.addresses
            ELSE req[r].resp = 200

\* An update that keeps the customer's own phone number and e-mail has succeeded.
C17_Witness ==
    \E r \in Slots :
        /\ Quiescent
        /\ req[r].kind = "putCustomer"
        /\ req[r].resp = 200
        /\ req[r].id \in DOMAIN req[r].pre.customers
        /\ req[r].pre.customers[req[r].id].phone_number = req[r].phone_number
        /\ req[r].email # 0
        /\ req[r].pre.customers[req[r].id].email = req[r].email

\* C18: POST /customers checks its preconditions in order and stops at the first
\* failure: when both the phone_number and the email of the request belonged to
\* existing customers, the rejection is the duplicate-phone one, no more than one
\* response is sent at any point, and no row is inserted.
C18_FirstFailureReported ==
    \A r \in Slots :
        (/\ req[r].kind = "postCustomer"
         /\ \E c \in DOMAIN req[r].pre.customers :
               req[r].pre.customers[c].phone_number = req[r].phone_number
         /\ req[r].email # 0
         /\ \E c \in DOMAIN req[r].pre.customers :
               req[r].pre.customers[c].email = req[r].email) =>
            /\ req[r].sent <= 1
            /\ customers = req[r].pre.customers
            /\ addresses = req[r].pre.addresses
            /\ Complete(req[r]) =>
                  /\ req[r].sent = 1
                  /\ req[r].resp = 400
                  /\ req[r].message = "Phone number already exists"

\* A create whose phone number belonged to one customer and whose e-mail belonged
\* to another has been answered.
C18_Witness ==
    \E r \in Slots :
        /\ req[r].kind = "postCustomer"
        /\ Complete(req[r])
        /\ req[r].email # 0
        /\ \E c, d \in DOMAIN req[r].pre.customers :
              /\ c # d
              /\ req[r].pre.customers[c].phone_number = req[r].phone_number
              /\ req[r].pre.customers[d].email = req[r].email

\* The input of request q breaks a field rule: the address fields of an address
\* request, the customer fields of a customer request, or the address fields of
\* one of its nested address payloads.
Malformed(q) ==
    \/ q.kind \in {"postAddress", "putAddress"} /\ q.address_line1 = 0
    \/ /\ q.kind \in {"postCustomer", "putCustomer"}
       /\ \/ q.phone_number = 0
          \/ \E i \in 1 .. Len(q.addresses) : q.addresses[i].address_line1 <= 0

\* C19: a mutating request with malformed or out-of-range input, a nested address
\* payload of POST /customers or PUT /customers/:id that breaks the address field
\* rules included, is rejected with HTTP 400 before any store statement is issued.
C19_InvalidInputRejected ==
    \A r \in Slots :
        Malformed(req[r]) =>
            /\ req[r].resp = 400
            /\ req[r].pend = {}
            /\ customers = req[r].pre.customers
            /\ addresses = req[r].pre.addresses

\* The statements that write to the store on behalf of a request (the flag
\* recompute apart).
WriteOps ==
    {"clearPrimary", "insertAddress", "updateAddress", "deleteAddress",
     "insertCustomer", "updateCustomer", "deleteAddresses", "deleteCustomer"}

\* C20: whenever a store write issued while handling a mutating request fails,
\* the request is not answered with a success response: once the failed write's
\* callback has run, the response of the request is not a success one.
C20_FailedWriteSurfaced ==
    [][\A r \in Slots :
          (/\ faults' < faults
           /\ \E s \in req[r].pend \ req'[r].pend : s.op \in WriteOps)
              => req'[r].resp \notin {200, 201}]_vars

\* C21: if the flag-recompute write of POST /addresses, DELETE /addresses/:id,
\* POST /customers or PUT /customers/:id fails, the request keeps the success
\* response it has sent (and sends no other), no customer or address row changes
\* (nothing the request applied is undone), and the two flags keep their values.
C21_RecomputeFailureTolerated ==
    [][\A r \in Slots :
          (/\ faults' < faults
           /\ req[r].kind \in {"postAddress", "deleteAddress", "postCustomer", "putCustomer"}
           /\ Stmt("updateFlags", 0) \in req[r].pend \ req'[r].pend) =>
              /\ req'[r].resp \in {200, 201}
              /\ req'[r].sent = 1
              /\ customers' = customers
              /\ addresses' = addresses]_vars

\* A request has changed its customer's addresses, has been answered with
\* success, and a failed statement has left the customer's flags stale.
C21_Witness ==
    \E r \in Slots :
        /\ Quiescent
        /\ Succeeded(req[r], {"postAddress", "deleteAddress", "postCustomer", "putCustomer"})
        /\ faults < MaxFaults
        /\ addresses # req[r].pre.addresses
        /\ req[r].customer_id \in DOMAIN customers
        /\ ~FlagsDerived(req[r].customer_id)

\* C22: every request to a mutating endpoint eventually receives exactly one
\* response, never zero and never two, for every combination of success and
\* failure of its store statements and for any number of address payloads,
\* every issued statement being executed eventually.
C22_ExactlyOneResponse ==
    /\ [](\A r \in Slots : req[r].sent <= 1)
    /\ \A r \in Slots : (req[r].kind # "none") ~> (req[r].sent = 1)

\* The statements of a request that insert or delete address rows and are not
\* yet executed.
AddressMutations(q) ==
    {s \in q.pend : s.op \in {"insertAddress", "deleteAddress", "deleteAddresses"}}

\* C23: in every address-set-changing request the flag recompute is issued only
\* when every address insert and delete of the request has completed (with
\* success or error; for a nested list, one callback per element), and a
\* request issues no address insert or delete once its recompute is issued
\* (the recompute is issued in the step that sends the success response).
C23_RecomputeIssuedLast ==
    [][\A r \in Slots :
          LET f == Stmt("updateFlags", 0) IN
          /\ (req'[r].kind \in AddressSetChanging /\ f \in req'[r].pend \ req[r].pend) =>
                /\ AddressMutations(req'[r]) = {}
                /\ HasAddresses(req'[r]) =>
                      req'[r].addressCount = Len(req'[r].addresses)
          /\ (AddressMutations(req'[r]) \ AddressMutations(req[r]) # {}) =>
                /\ f \notin req[r].pend \cup req'[r].pend
                /\ req[r].resp = 0 /\ req'[r].resp = 0]_vars

\* A customer update with two address payloads has completed although one of its
\* statements failed.
C23_Witness ==
    \E r \in Slots :
        /\ Succeeded(req[r], {"putCustomer"})
        /\ Len(req[r].addresses) = 2
        /\ req[r].addressCount = 2
        /\ faults < MaxFaults

\* C24: for every address-set-changing request the success response is emitted
\* only after the flag recompute for the affected customer has been applied to
\* the store: a request that has its success response has no flag UPDATE still
\* to be executed, and its customer (if it exists) has the derived flags.
C24_ResponseAfterRecompute ==
    \A r \in Slots :
        (/\ req[r].kind \in AddressSetChanging
         /\ req[r].resp \in {200, 201}
         /\ \A r2 \in Slots : r2 # r => Complete(req[r2])) =>
            /\ Stmt("updateFlags", 0) \notin req[r].pend
            /\ req[r].customer_id \in DOMAIN customers =>
                  FlagsDerived(req[r].customer_id)

\* C25: under every interleaving of the statements of concurrent POST /addresses,
\* DELETE /addresses/:id and PUT /customers/:id requests on the same customer,
\* once all requests have completed (no statement has failed) every existing
\* customer has has_multiple_addresses = (live address count > 1) and
\* only_one_address = (live address count = 1).
C25_ConcurrentFlagsSettle ==
    Quiescent => \A c \in DOMAIN customers : FlagsDerived(c)

\* A customer update with two addresses and an address create, handled at the
\* same time, have both succeeded, the create's INSERT having run after the
\* update's DELETE: the customer owns three addresses.
C25_Witness ==
    /\ Quiescent
    /\ Succeeded(req[1], {"putCustomer"}) /\ Len(req[1].addresses) = 2
    /\ Succeeded(req[2], {"postAddress"})
    /\ 1 \in DOMAIN customers
    /\ CountAddresses(addresses, 1) = 3
    /\ CountAddresses(req[1].pre.addresses, 1) = 1

\* C26: under every interleaving of the statements of concurrent POST /customers
\* and PUT /customers/:id requests no two customer rows share a phone_number and
\* no two share a non-null email; and when two concurrent creates carry the
\* same phone_number (held by no customer before; no email), exactly one customer row is
\* created and the other request is rejected with a conflict error (HTTP 400).
C26_UniqueUnderConcurrency ==
    /\ \A c, d \in DOMAIN customers :
          c # d =>
            /\ customers[c].phone_number # customers[d].phone_number
            /\ customers[c].email # 0 => customers[c].email # customers[d].email
    /\ (/\ Quiescent
        /\ req[1].kind = "postCustomer" /\ req[2].kind = "postCustomer"
        /\ req[1].phone_number # 0
        /\ req[1].phone_number = req[2].phone_number
        /\ ~PhoneTaken(req[1].pre.customers, req[1].phone_number, 0)
        /\ req[1].email = 0 /\ req[2].email = 0) =>
          \E r, o \in Slots :
            /\ r # o
            /\ req[r].resp = 201 /\ req[o].resp = 400
            /\ Cardinality(DOMAIN customers) =
                 Cardinality(DOMAIN req[1].pre.customers) + 1

\* C27: a POST /addresses or PUT /addresses/:id request that ends with an error
\* response (404 or 500) leaves the is_primary value of every address in the
\* store unchanged (as it was when the request arrived).
C27_ErrorLeavesPrimary ==
    \A r \in Slots :
        (/\ Quiescent
         /\ req[r].kind \in {"postAddress", "putAddress"}
         /\ req[r].resp \in {404, 500}) =>
            \A a \in DOMAIN addresses \cap DOMAIN req[r].pre.addresses :
                addresses[a].is_primary = req[r].pre.addresses[a].is_primary

\* C28: in POST /customers and PUT /customers/:id with k >= 2 address payloads,
\* an INSERT that fails rolls nothing back (the customer row and every address
\* row stay in the store) and the response is still the success response; the
\* flag UPDATE that follows the last INSERT, when it succeeds, leaves the customer
\* with the flags derived from the number of addresses actually stored, and the
\* request is then complete.
C28_PartialInsertKept ==
    [][\A r \in Slots :
          (/\ req[r].kind \in {"postCustomer", "putCustomer"}
           /\ Len(req[r].addresses) >= 2
           /\ req'[r] # req[r]) =>
             /\ (\E i \in 1 .. Len(req[r].addresses) :
                    Stmt("insertAddress", i) \in req[r].pend \ req'[r].pend) =>
                   /\ customers' = customers
                   /\ \A a \in DOMAIN addresses :
                         a \in DOMAIN addresses' /\ addresses'[a] = addresses[a]
                   /\ req'[r].resp \in {0, 200, 201}
                   /\ req'[r].addressCount = Len(req[r].addresses) =>
                         /\ req'[r].resp \in {200, 201}
                         /\ Stmt("updateFlags", 0) \in req'[r].pend
             /\ (Stmt("updateFlags", 0) \in req[r].pend \ req'[r].pend) =>
                   /\ addresses' = addresses
                   /\ req'[r].resp \in {200, 201} /\ req'[r].pend = {}
                   /\ req[r].customer_id \in DOMAIN customers'
                   /\ faults' = faults =>
                         LET c == req[r].customer_id
                             n == CountAddresses(addresses', c) IN
                         /\ customers'[c].has_multiple_addresses = (n > 1)
                         /\ customers'[c].only_one_address = (n = 1)]_vars

\* A customer create with two valid address payloads has completed with its
\* success response; one INSERT failed, one address is stored and the flags say
\* "exactly one".
C28_Witness ==
    \E r \in Slots :
        /\ Quiescent
        /\ Succeeded(req[r], {"postCustomer"})
        /\ Len(req[r].addresses) = 2
        /\ \A i \in 1 .. 2 : NotNullOk(req[r].addresses[i]) /\ req[r].addresses[i] # NullPayload
        /\ faults < MaxFaults
        /\ req[r].customer_id \in DOMAIN customers
        /\ CountAddresses(addresses, req[r].customer_id) = 1
        /\ customers[req[r].customer_id].only_one_address
        /\ ~customers[req[r].customer_id].has_multiple_addresses

\* C29: GET /customers/multiple-addresses returns exactly the customers whose
\* live address count is > 1 and GET /customers/single-address exactly those
\* whose live count is = 1, whatever the stored flags are; and whenever no
\* request is in flight (and initialization has applied its statements), the
\* two result sets are the sets of customers whose stored
\* has_multiple_addresses, respectively only_one_address, flag is true.
C29_ViewsMatchFlags ==
    /\ GetMultipleAddresses(customers, addresses) =
          {c \in DOMAIN customers : CountAddresses(addresses, c) > 1}
    /\ GetSingleAddress(customers, addresses) =
          {c \in DOMAIN customers : CountAddresses(addresses, c) = 1}
    /\ (Quiescent /\ boot.pc \in {"ready", "resolved"} /\ boot.pend = {}) =>
          /\ GetMultipleAddresses(customers, addresses) =
                {c \in DOMAIN customers : customers[c].has_multiple_addresses}
          /\ GetSingleAddress(customers, addresses) =
                {c \in DOMAIN customers : customers[c].only_one_address}

\* C30: after initializeDatabase has resolved on an empty store and every
\* statement it issued is applied, each of the three sample customers owns
\* exactly two addresses, exactly one of them primary, and has
\* has_multiple_addresses = TRUE and only_one_address = FALSE; on a store that
\* already holds a customer, initialization inserts no row and changes no flag
\* (it issues no statement, and the store is as the earlier runs left it).
C30_SampleDataSettled ==
    /\ (boot.pc = "resolved" /\ boot.pend = {} /\ boot.completed = NumSampleCustomers) =>
          \A c \in 1 .. NumSampleCustomers :
              /\ c \in DOMAIN customers
              /\ CountAddresses(addresses, c) = NumSampleAddresses
              /\ Cardinality(PrimariesOf(addresses, c)) = 1
              /\ customers[c].has_multiple_addresses
              /\ ~customers[c].only_one_address
    /\ (boot.pc = "resolved" /\ boot.completed = 0) =>
          /\ boot.pend = {}
          /\ nextCustId <= MaxSeedCustomers + 1
          /\ nextAddrId <= MaxSeedAddresses + 1
          /\ \A c \in DOMAIN customers : FlagsMatch(customers, addresses, c)

====
